---- MODULE Spec2Model ----
(***************************************************************************)
(* Blogicum (blog application): the relational store of Users, Categories, *)
(* Locations, Posts and Comments (blog/models.py), and the request         *)
(* handlers of blog/views.py acting on it.  Every action is one request    *)
(* (or one administrative store operation, or one tick of the clock); the  *)
(* response of the request is kept in resp.                                *)
(***************************************************************************)
EXTENDS Integers, Sequences, FiniteSets, TLC

\* ------------------------------------------------------------------ bounds
\* Total number of Post rows ever inserted (primary keys 1..MaxPosts).
MaxPosts == 2
\* Total number of Comment rows ever inserted (primary keys 1..MaxComments).
MaxComments == 2
\* The clock runs over 0..MaxTime; pub_date values are drawn from the same range.
MaxTime == 1

\* ------------------------------------------------------------------ domains
UserNames == {"alice", "bob"}
CategorySlugs == {"c1", "c2"}
LocationNames == {"l1"}
CommentTexts == {"t1", "t2"}
\* request.user of a request without a session (AnonymousUser).
Anonymous == "anonymous"
\* A null foreign key.
NULL == "null"
PostIds == 1..MaxPosts
CommentIds == 1..MaxComments
Times == 0..MaxTime

VARIABLES
    users,           \* registered usernames (auth User rows)
    categories,      \* slug -> [is_published]           (Category rows)
    locations,       \* name -> [is_published]           (Location rows)
    posts,           \* pk -> Post row
    comments,        \* pk -> Comment row
    next_post_id,    \* next primary key of Post
    next_comment_id, \* next primary key of Comment
    now,             \* timezone.now()
    resp             \* the response of the last request

vars == <<users, categories, locations, posts, comments,
          next_post_id, next_comment_id, now, resp>>
store == <<users, categories, locations, posts, comments,
           next_post_id, next_comment_id>>

\* ------------------------------------------------------------------ responses
LOGIN_URL == <<"login">>
NoUrl == <<>>
post_detail_url(post_id) == <<"blog:post_detail", post_id>>
profile_url(username) == <<"blog:profile", username>>

Response(view, viewer, arg, status, url, object_list) ==
    [view |-> view, viewer |-> viewer, arg |-> arg, status |-> status,
     url |-> url, object_list |-> object_list,
     comment_count |-> [p \in {} |-> 0]]
Ok(view, viewer, arg, object_list) ==
    Response(view, viewer, arg, "OK", NoUrl, object_list)
Http404(view, viewer, arg) ==
    Response(view, viewer, arg, "NotFound", NoUrl, <<>>)
PermissionDenied(view, viewer, arg) ==
    Response(view, viewer, arg, "Forbidden", NoUrl, <<>>)
redirect(view, viewer, arg, url) ==
    Response(view, viewer, arg, "Redirect", url, <<>>)
NoRequest == Response("none", Anonymous, <<>>, "OK", NoUrl, <<>>)

\* ------------------------------------------------------------------ store helpers
is_authenticated(viewer) == viewer # Anonymous
Viewers == users \cup {Anonymous}

\* A table without rows.
EmptyTable == [k \in {} |-> NULL]
\* f without the rows whose keys are in ks.
Without(f, ks) == [k \in DOMAIN f \ ks |-> f[k]]
\* f with row k set to r.
With(f, k, r) == [j \in DOMAIN f \cup {k} |-> IF j = k THEN r ELSE f[j]]

\* Post.author / Comment.author: on_delete=CASCADE; Comment.post: on_delete=CASCADE.
PostsOfAuthor(username) == {p \in DOMAIN posts : posts[p].author = username}
CommentsOfPosts(ps) == {c \in DOMAIN comments : comments[c].post \in ps}
CommentsOfAuthor(username) == {c \in DOMAIN comments : comments[c].author = username}

\* Post.category as on_delete=CASCADE.
CategorySetNull_cascade(slug) ==
    [p \in {q \in DOMAIN posts : posts[q].category # slug} |-> posts[p]]

\* Post.category: on_delete=SET_NULL.
CategorySetNull(slug) ==
    [p \in DOMAIN posts |->
        IF posts[p].category = slug THEN [posts[p] EXCEPT !.category = NULL]
        ELSE posts[p]]
\* Post.location: on_delete=SET_NULL.
LocationSetNull(name) ==
    [p \in DOMAIN posts |->
        IF posts[p].location = name THEN [posts[p] EXCEPT !.location = NULL]
        ELSE posts[p]]

\* ------------------------------------------------------------------ querysets
\* A queryset is a set of primary keys; order_by turns it into a sequence.
\* order_by('pub_date'): oldest first.
RECURSIVE order_by_pub_date_asc(_)
order_by_pub_date_asc(qs) ==
    IF qs = {} THEN <<>>
    ELSE LET first == CHOOSE p \in qs : \A q \in qs :
                          \/ posts[p].pub_date < posts[q].pub_date
                          \/ posts[p].pub_date = posts[q].pub_date /\ p <= q
         IN <<first>> \o order_by_pub_date_asc(qs \ {first})

RECURSIVE order_by_pub_date_desc(_)
order_by_pub_date_desc(qs) ==
    IF qs = {} THEN <<>>
    ELSE LET first == CHOOSE p \in qs : \A q \in qs :
                          \/ posts[p].pub_date > posts[q].pub_date
                          \/ posts[p].pub_date = posts[q].pub_date /\ p <= q
         IN <<first>> \o order_by_pub_date_desc(qs \ {first})

RECURSIVE order_by_created_at(_)
order_by_created_at(qs) ==
    IF qs = {} THEN <<>>
    ELSE LET first == CHOOSE c \in qs : \A d \in qs :
                          \/ comments[c].created_at < comments[d].created_at
                          \/ comments[c].created_at = comments[d].created_at /\ c <= d
         IN <<first>> \o order_by_created_at(qs \ {first})

\* PublishedPostsMixin.filter_published_posts: category__is_published=True joins
\* Category, so a post whose category is null matches no row.
filter_published_posts_strictly_past(qs) ==
    {p \in qs : /\ posts[p].is_published
                /\ posts[p].pub_date < now
                /\ posts[p].category \in DOMAIN categories
                /\ categories[posts[p].category].is_published}

filter_published_posts(qs) ==
    {p \in qs : /\ posts[p].is_published
                /\ posts[p].pub_date <= now
                /\ posts[p].category \in DOMAIN categories
                /\ categories[posts[p].category].is_published}

\* Count('comments') restricted to the published comments.
apply_common_annotations_published_only(qs) ==
    [p \in qs |-> Cardinality({c \in CommentsOfPosts({p}) : comments[c].is_published})]

\* PublishedPostsMixin.apply_common_annotations: annotate(comment_count=
\* Count('comments')), the number of Comment rows that refer to each post of the
\* queryset (select_related changes no result).
apply_common_annotations(qs) ==
    [p \in qs |-> Cardinality(CommentsOfPosts({p}))]

\* PublishedPostsMixin.get_base_queryset
get_base_queryset == DOMAIN posts

\* PublishedPostsMixin.get_queryset
PublishedPostsMixin_get_queryset == filter_published_posts(get_base_queryset)

\* ------------------------------------------------------------------ the clock and the registration
Tick ==
    /\ now < MaxTime
    /\ now' = now + 1
    /\ resp' = NoRequest
    /\ UNCHANGED store

\* SignupView: UserCreationForm is valid only for a username not yet taken.
SignupView(username) ==
    /\ username \notin users
    /\ users' = users \cup {username}
    /\ resp' = redirect("SignupView", Anonymous, username, LOGIN_URL)
    /\ UNCHANGED <<categories, locations, posts, comments,
                   next_post_id, next_comment_id, now>>

\* ------------------------------------------------------------------ the administrative interface
\* CategoryAdmin: add a Category (slug is unique).
AdminAddCategory(slug, is_published) ==
    /\ slug \notin DOMAIN categories
    /\ categories' = With(categories, slug, [is_published |-> is_published])
    /\ resp' = NoRequest
    /\ UNCHANGED <<users, locations, posts, comments,
                   next_post_id, next_comment_id, now>>

\* CategoryAdmin.list_editable = ('is_published',)
AdminSetCategoryPublished(slug, is_published) ==
    /\ slug \in DOMAIN categories
    /\ categories[slug].is_published # is_published
    /\ categories' = [categories EXCEPT ![slug].is_published = is_published]
    /\ resp' = NoRequest
    /\ UNCHANGED <<users, locations, posts, comments,
                   next_post_id, next_comment_id, now>>

\* Deleting a Category: Post.category is on_delete=SET_NULL.
AdminDeleteCategory(slug) ==
    /\ slug \in DOMAIN categories
    /\ categories' = Without(categories, {slug})
    /\ posts' = CategorySetNull(slug)
    /\ resp' = NoRequest
    /\ UNCHANGED <<users, locations, comments,
                   next_post_id, next_comment_id, now>>

\* LocationAdmin: add a Location.
AdminAddLocation(name, is_published) ==
    /\ name \notin DOMAIN locations
    /\ locations' = With(locations, name, [is_published |-> is_published])
    /\ resp' = NoRequest
    /\ UNCHANGED <<users, categories, posts, comments,
                   next_post_id, next_comment_id, now>>

\* LocationAdmin.list_editable = ('is_published',)
AdminSetLocationPublished(name, is_published) ==
    /\ name \in DOMAIN locations
    /\ locations[name].is_published # is_published
    /\ locations' = [locations EXCEPT ![name].is_published = is_published]
    /\ resp' = NoRequest
    /\ UNCHANGED <<users, categories, posts, comments,
                   next_post_id, next_comment_id, now>>

\* Deleting a Location: Post.location is on_delete=SET_NULL.
AdminDeleteLocation(name) ==
    /\ name \in DOMAIN locations
    /\ locations' = Without(locations, {name})
    /\ posts' = LocationSetNull(name)
    /\ resp' = NoRequest
    /\ UNCHANGED <<users, categories, comments,
                   next_post_id, next_comment_id, now>>

\* Deleting a User: Post.author and Comment.author are on_delete=CASCADE, and the
\* Comments of the deleted Posts go with them (Comment.post is on_delete=CASCADE).
AdminDeleteUser(username) ==
    /\ username \in users
    /\ users' = users \ {username}
    /\ posts' = Without(posts, PostsOfAuthor(username))
    /\ comments' = Without(comments, CommentsOfAuthor(username)
                                       \cup CommentsOfPosts(PostsOfAuthor(username)))
    /\ resp' = NoRequest
    /\ UNCHANGED <<categories, locations, next_post_id, next_comment_id, now>>

\* CommentAdmin: the change form of a Comment sets is_published.
AdminSetCommentPublished(comment_id, is_published) ==
    /\ comment_id \in DOMAIN comments
    /\ comments[comment_id].is_published # is_published
    /\ comments' = [comments EXCEPT ![comment_id].is_published = is_published]
    /\ resp' = NoRequest
    /\ UNCHANGED <<users, categories, locations, posts,
                   next_post_id, next_comment_id, now>>

\* ------------------------------------------------------------------ the read views
\* The response of a ListView: the posts of the queryset, newest pub_date first,
\* each with its comment_count annotation.
ListView(view, viewer, arg, queryset) ==
    [Ok(view, viewer, arg, order_by_pub_date_desc(queryset))
        EXCEPT !.comment_count = apply_common_annotations(queryset)]

\* An index that adds the viewer's own posts to the published ones.
IndexView_own_posts(viewer) ==
    /\ resp' = ListView("IndexView", viewer, <<>>,
                         PublishedPostsMixin_get_queryset \cup PostsOfAuthor(viewer))
    /\ UNCHANGED <<store, now>>

\* IndexView (PublishedPostsMixin, ListView): the viewer is not consulted.
IndexView(viewer) ==
    /\ resp' = ListView("IndexView", viewer, <<>>, PublishedPostsMixin_get_queryset)
    /\ UNCHANGED <<store, now>>

\* The outcome of a get_queryset that may raise Http404 (get_object_or_404).
Raise404 == [raised |-> TRUE, rows |-> {}]
QuerySet(rows) == [raised |-> FALSE, rows |-> rows]

\* PostDetailView.get_queryset with a filter that lets a null category through.
PostDetailView_get_queryset_null_category(viewer, post_id) ==
    IF is_authenticated(viewer) /\ post_id \notin DOMAIN posts
    THEN Raise404
    ELSE IF is_authenticated(viewer) /\ viewer = posts[post_id].author
    THEN QuerySet(DOMAIN posts)
    ELSE QuerySet({p \in DOMAIN posts :
                      /\ posts[p].pub_date <= now
                      /\ posts[p].is_published
                      /\ \/ posts[p].category = NULL
                         \/ /\ posts[p].category \in DOMAIN categories
                            /\ categories[posts[p].category].is_published})

\* PostDetailView.get_queryset without the branch for the author.
PostDetailView_get_queryset_no_author(viewer, post_id) ==
    IF is_authenticated(viewer) /\ post_id \notin DOMAIN posts
    THEN Raise404
    ELSE QuerySet({p \in DOMAIN posts :
                      /\ posts[p].pub_date <= now
                      /\ posts[p].is_published
                      /\ posts[p].category \in DOMAIN categories
                      /\ categories[posts[p].category].is_published})

\* PostDetailView.get_queryset: the whole table for the author of the post named by
\* the URL, the published posts for everybody else.
PostDetailView_get_queryset(viewer, post_id) ==
    IF is_authenticated(viewer) /\ post_id \notin DOMAIN posts
    THEN Raise404
    ELSE IF is_authenticated(viewer) /\ viewer = posts[post_id].author
    THEN QuerySet(DOMAIN posts)
    ELSE QuerySet({p \in DOMAIN posts :
                      /\ posts[p].pub_date <= now
                      /\ posts[p].is_published
                      /\ posts[p].category \in DOMAIN categories
                      /\ categories[posts[p].category].is_published})

\* A context['comments'] without the is_published filter.
PostDetailView_comments_unfiltered(post_id) ==
    order_by_created_at(CommentsOfPosts({post_id}))

\* PostDetailView.get_context_data: context['comments']
PostDetailView_comments(post_id) ==
    order_by_created_at({c \in CommentsOfPosts({post_id}) : comments[c].is_published})

\* PostDetailView (DetailView.get: get_object over get_queryset, then the context).
PostDetailView(viewer, post_id) ==
    /\ LET queryset == PostDetailView_get_queryset(viewer, post_id)
       IN resp' = IF queryset.raised \/ post_id \notin queryset.rows
                  THEN Http404("PostDetailView", viewer, post_id)
                  ELSE Ok("PostDetailView", viewer, post_id,
                          PostDetailView_comments(post_id))
    /\ UNCHANGED <<store, now>>

\* A get_category that does not look at is_published.
get_category_unpublished_too(slug) == slug \in DOMAIN categories

\* CategoryPostsView.get_category: get_object_or_404(Category, is_published=True, slug=...)
get_category(slug) ==
    slug \in DOMAIN categories /\ categories[slug].is_published

\* CategoryPostsView.get_queryset
CategoryPostsView_get_queryset(slug) ==
    LET queryset == PublishedPostsMixin_get_queryset
    IN IF ~get_category(slug) THEN Raise404
       ELSE QuerySet({p \in queryset : posts[p].category = slug})

CategoryPostsView(viewer, slug) ==
    /\ LET queryset == CategoryPostsView_get_queryset(slug)
       IN resp' = IF queryset.raised THEN Http404("CategoryPostsView", viewer, slug)
                  ELSE ListView("CategoryPostsView", viewer, slug, queryset.rows)
    /\ UNCHANGED <<store, now>>

\* ProfileView.get_profile_user: get_object_or_404(User, username=...)
get_profile_user(username) == username \in users

\* A get_queryset that filters the owner's view of the profile too.
ProfileView_get_queryset_always_filtered(viewer, username) ==
    IF ~get_profile_user(username) THEN Raise404
    ELSE QuerySet(filter_published_posts(PostsOfAuthor(username)))

\* ProfileView.get_queryset
ProfileView_get_queryset(viewer, username) ==
    IF ~get_profile_user(username) THEN Raise404
    ELSE LET queryset == PostsOfAuthor(username)
         IN IF viewer # username THEN QuerySet(filter_published_posts(queryset))
            ELSE QuerySet(queryset)

ProfileView(viewer, username) ==
    /\ LET queryset == ProfileView_get_queryset(viewer, username)
       IN resp' = IF queryset.raised THEN Http404("ProfileView", viewer, username)
                  ELSE ListView("ProfileView", viewer, username, queryset.rows)
    /\ UNCHANGED <<store, now>>

\* ------------------------------------------------------------------ the forms
\* PostForm (exclude = author, created_at): the fields a client submits.
PostForms ==
    [is_published : BOOLEAN, pub_date : Times,
     category : CategorySlugs \cup {NULL}, location : LocationNames \cup {NULL}]

\* PostForm.is_valid: category is a required choice among the Category rows (the
\* model field is null=True but not blank=True), location an optional choice among
\* the Location rows (blank=True).
PostForm_is_valid(form) ==
    /\ form.category \in DOMAIN categories
    /\ form.location = NULL \/ form.location \in DOMAIN locations

\* ------------------------------------------------------------------ the access mixins
\* AccessMixin.handle_no_permission, as inherited by PostDeleteView, the create
\* views and the comment views: PermissionDenied for an authenticated user, the
\* login page for an anonymous one.
AccessMixin_handle_no_permission(view, viewer, arg) ==
    IF is_authenticated(viewer) THEN PermissionDenied(view, viewer, arg)
    ELSE redirect(view, viewer, arg, LOGIN_URL)

\* PostUpdateView.handle_no_permission
PostUpdateView_handle_no_permission(viewer, post_id) ==
    IF ~is_authenticated(viewer)
    THEN redirect("PostUpdateView", viewer, post_id, LOGIN_URL)
    ELSE redirect("PostUpdateView", viewer, post_id, post_detail_url(post_id))

\* A test_func that passes everybody.
Comment_test_func_any(viewer, comment_id) == TRUE

\* PostUpdateView.test_func / PostDeleteView.test_func (the post exists)
Post_test_func(viewer, post_id) == posts[post_id].author = viewer

\* CommentUpdateView.test_func / CommentDeleteView.test_func (the comment exists)
Comment_test_func(viewer, comment_id) == comments[comment_id].author = viewer

\* ------------------------------------------------------------------ the post views
\* A form_valid that takes the author from elsewhere than request.user.
PostCreateView_form_valid_other_author(viewer, form) ==
    [author |-> CHOOSE u \in UserNames : u # viewer,
     is_published |-> form.is_published,
     pub_date |-> form.pub_date, category |-> form.category,
     location |-> form.location]

\* PostCreateView.form_valid: the row saved for a valid form.
PostCreateView_form_valid(viewer, form) ==
    [author |-> viewer, is_published |-> form.is_published,
     pub_date |-> form.pub_date, category |-> form.category,
     location |-> form.location]

\* PostCreateView (LoginRequiredMixin, CreateView), a POST request.
PostCreateView(viewer, form) ==
    IF ~is_authenticated(viewer)
    THEN /\ resp' = AccessMixin_handle_no_permission("PostCreateView", viewer, <<>>)
         /\ UNCHANGED <<store, now>>
    ELSE IF ~PostForm_is_valid(form)
    THEN /\ resp' = Ok("PostCreateView", viewer, <<>>, <<>>)
         /\ UNCHANGED <<store, now>>
    ELSE /\ next_post_id <= MaxPosts
         /\ posts' = With(posts, next_post_id, PostCreateView_form_valid(viewer, form))
         /\ next_post_id' = next_post_id + 1
         /\ resp' = redirect("PostCreateView", viewer, <<>>, profile_url(viewer))
         /\ UNCHANGED <<users, categories, locations, comments, next_comment_id, now>>

\* UpdateView.form_valid for PostForm: every field but author is taken from the form.
PostUpdateView_form_valid(post, form) ==
    [author |-> post.author, is_published |-> form.is_published,
     pub_date |-> form.pub_date, category |-> form.category,
     location |-> form.location]

\* PostUpdateView (LoginRequiredMixin, UserPassesTestMixin, UpdateView), a POST request.
PostUpdateView(viewer, post_id, form) ==
    IF ~is_authenticated(viewer)
    THEN /\ resp' = PostUpdateView_handle_no_permission(viewer, post_id)
         /\ UNCHANGED <<store, now>>
    ELSE IF post_id \notin DOMAIN posts
    THEN /\ resp' = Http404("PostUpdateView", viewer, post_id)
         /\ UNCHANGED <<store, now>>
    ELSE IF ~Post_test_func(viewer, post_id)
    THEN /\ resp' = PostUpdateView_handle_no_permission(viewer, post_id)
         /\ UNCHANGED <<store, now>>
    ELSE IF ~PostForm_is_valid(form)
    THEN /\ resp' = Ok("PostUpdateView", viewer, post_id, <<>>)
         /\ UNCHANGED <<store, now>>
    ELSE /\ posts' = [posts EXCEPT ![post_id] = PostUpdateView_form_valid(@, form)]
         /\ resp' = redirect("PostUpdateView", viewer, post_id, post_detail_url(post_id))
         /\ UNCHANGED <<users, categories, locations, comments,
                        next_post_id, next_comment_id, now>>

\* PostDeleteView (LoginRequiredMixin, UserPassesTestMixin, DeleteView), a POST
\* request; handle_no_permission is not overridden here.
PostDeleteView(viewer, post_id) ==
    IF ~is_authenticated(viewer)
    THEN /\ resp' = AccessMixin_handle_no_permission("PostDeleteView", viewer, post_id)
         /\ UNCHANGED <<store, now>>
    ELSE IF post_id \notin DOMAIN posts
    THEN /\ resp' = Http404("PostDeleteView", viewer, post_id)
         /\ UNCHANGED <<store, now>>
    ELSE IF ~Post_test_func(viewer, post_id)
    THEN /\ resp' = AccessMixin_handle_no_permission("PostDeleteView", viewer, post_id)
         /\ UNCHANGED <<store, now>>
    ELSE /\ posts' = Without(posts, {post_id})
         /\ comments' = Without(comments, CommentsOfPosts({post_id}))
         /\ resp' = redirect("PostDeleteView", viewer, post_id, profile_url(viewer))
         /\ UNCHANGED <<users, categories, locations,
                        next_post_id, next_comment_id, now>>

\* ------------------------------------------------------------------ the comment views
\* CommentCreateView.form_valid: the row saved (CommentForm has the one field text;
\* is_published is the model default, created_at is auto_now_add).
CommentCreateView_form_valid(viewer, post_id, text) ==
    [post |-> post_id, author |-> viewer, text |-> text,
     is_published |-> TRUE, created_at |-> now]

\* CommentCreateView (LoginRequiredMixin, CreateView), a POST request.
CommentCreateView(viewer, post_id, text) ==
    IF ~is_authenticated(viewer)
    THEN /\ resp' = AccessMixin_handle_no_permission("CommentCreateView", viewer, post_id)
         /\ UNCHANGED <<store, now>>
    ELSE IF post_id \notin DOMAIN posts
    THEN /\ resp' = Http404("CommentCreateView", viewer, post_id)
         /\ UNCHANGED <<store, now>>
    ELSE /\ next_comment_id <= MaxComments
         /\ comments' = With(comments, next_comment_id,
                             CommentCreateView_form_valid(viewer, post_id, text))
         /\ next_comment_id' = next_comment_id + 1
         /\ resp' = redirect("CommentCreateView", viewer, post_id,
                             post_detail_url(post_id))
         /\ UNCHANGED <<users, categories, locations, posts, next_post_id, now>>

\* CommentUpdateView (LoginRequiredMixin, UserPassesTestMixin, UpdateView), a POST
\* request: get_object looks the comment up by comment_id (pk_url_kwarg) alone.
CommentUpdateView(viewer, post_id, comment_id, text) ==
    LET arg == <<post_id, comment_id>> IN
    IF ~is_authenticated(viewer)
    THEN /\ resp' = AccessMixin_handle_no_permission("CommentUpdateView", viewer, arg)
         /\ UNCHANGED <<store, now>>
    ELSE IF comment_id \notin DOMAIN comments
    THEN /\ resp' = Http404("CommentUpdateView", viewer, arg)
         /\ UNCHANGED <<store, now>>
    ELSE IF ~Comment_test_func(viewer, comment_id)
    THEN /\ resp' = AccessMixin_handle_no_permission("CommentUpdateView", viewer, arg)
         /\ UNCHANGED <<store, now>>
    ELSE /\ comments' = [comments EXCEPT ![comment_id].text = text]
         /\ resp' = redirect("CommentUpdateView", viewer, arg, post_detail_url(post_id))
         /\ UNCHANGED <<users, categories, locations, posts,
                        next_post_id, next_comment_id, now>>

\* CommentDeleteView (LoginRequiredMixin, UserPassesTestMixin, DeleteView), a POST
\* request.
CommentDeleteView(viewer, post_id, comment_id) ==
    LET arg == <<post_id, comment_id>> IN
    IF ~is_authenticated(viewer)
    THEN /\ resp' = AccessMixin_handle_no_permission("CommentDeleteView", viewer, arg)
         /\ UNCHANGED <<store, now>>
    ELSE IF comment_id \notin DOMAIN comments
    THEN /\ resp' = Http404("CommentDeleteView", viewer, arg)
         /\ UNCHANGED <<store, now>>
    ELSE IF ~Comment_test_func(viewer, comment_id)
    THEN /\ resp' = AccessMixin_handle_no_permission("CommentDeleteView", viewer, arg)
         /\ UNCHANGED <<store, now>>
    ELSE /\ comments' = Without(comments, {comment_id})
         /\ resp' = redirect("CommentDeleteView", viewer, arg, post_detail_url(post_id))
         /\ UNCHANGED <<users, categories, locations, posts,
                        next_post_id, next_comment_id, now>>

\* ------------------------------------------------------------------ the specification
Init ==
    /\ users = {}
    /\ categories = EmptyTable
    /\ locations = EmptyTable
    /\ posts = EmptyTable
    /\ comments = EmptyTable
    /\ next_post_id = 1
    /\ next_comment_id = 1
    /\ now = 0
    /\ resp = NoRequest

Next ==
    \/ Tick
    \/ \E u \in UserNames : SignupView(u)
    \/ \E c \in CategorySlugs, b \in BOOLEAN : AdminAddCategory(c, b)
    \/ \E c \in CategorySlugs, b \in BOOLEAN : AdminSetCategoryPublished(c, b)
    \/ \E c \in CategorySlugs : AdminDeleteCategory(c)
    \/ \E l \in LocationNames, b \in BOOLEAN : AdminAddLocation(l, b)
    \/ \E l \in LocationNames, b \in BOOLEAN : AdminSetLocationPublished(l, b)
    \/ \E l \in LocationNames : AdminDeleteLocation(l)
    \/ \E u \in UserNames : AdminDeleteUser(u)
    \/ \E c \in CommentIds, b \in BOOLEAN : AdminSetCommentPublished(c, b)
    \/ \E v \in Viewers : IndexView(v)
    \/ \E v \in Viewers, p \in PostIds : PostDetailView(v, p)
    \/ \E v \in Viewers, c \in CategorySlugs : CategoryPostsView(v, c)
    \/ \E v \in Viewers, u \in UserNames : ProfileView(v, u)
    \/ \E v \in Viewers, f \in PostForms : PostCreateView(v, f)
    \/ \E v \in Viewers, p \in PostIds, f \in PostForms : PostUpdateView(v, p, f)
    \/ \E v \in Viewers, p \in PostIds : PostDeleteView(v, p)
    \/ \E v \in Viewers, p \in PostIds, t \in CommentTexts : CommentCreateView(v, p, t)
    \/ \E v \in Viewers, p \in PostIds, c \in CommentIds, t \in CommentTexts :
          CommentUpdateView(v, p, c, t)
    \/ \E v \in Viewers, p \in PostIds, c \in CommentIds : CommentDeleteView(v, p, c)

Spec == Init /\ [][Next]_vars

\* ------------------------------------------------------------------ workloads
\* The same store and the same handlers under the requests of one concern at a time:
\* every behaviour of a workload is a behaviour of Spec.

\* Visibility of one post: every publication field of the post, its category and
\* its location vary; there are no comments.
DetailForms == {f \in PostForms : f.category = "c1"}
NextDetail ==
    \/ Tick
    \/ \E u \in UserNames : SignupView(u)
    \/ \E b \in BOOLEAN : AdminAddCategory("c1", b)
    \/ \E b \in BOOLEAN : AdminSetCategoryPublished("c1", b)
    \/ AdminDeleteCategory("c1")
    \/ \E l \in LocationNames, b \in BOOLEAN : AdminAddLocation(l, b)
    \/ \E l \in LocationNames, b \in BOOLEAN : AdminSetLocationPublished(l, b)
    \/ \E l \in LocationNames : AdminDeleteLocation(l)
    \/ \E v \in Viewers, f \in DetailForms : PostCreateView(v, f)
    \/ \E v \in Viewers, p \in PostIds, f \in DetailForms : PostUpdateView(v, p, f)
    \/ \E v \in Viewers, p \in PostIds : PostDetailView(v, p)

SpecDetail == Init /\ [][NextDetail]_vars

\* The listings: posts of two authors in two categories; no locations, no comments.
ListingForms == {f \in PostForms : f.location = NULL /\ f.category # NULL}
NextListing ==
    \/ Tick
    \/ \E u \in UserNames : SignupView(u)
    \/ \E c \in CategorySlugs, b \in BOOLEAN : AdminAddCategory(c, b)
    \/ \E c \in CategorySlugs, b \in BOOLEAN : AdminSetCategoryPublished(c, b)
    \/ \E c \in CategorySlugs : AdminDeleteCategory(c)
    \/ \E v \in Viewers, f \in ListingForms : PostCreateView(v, f)
    \/ \E v \in Viewers : IndexView(v)
    \/ \E v \in Viewers, c \in CategorySlugs : CategoryPostsView(v, c)
    \/ \E v \in Viewers, u \in UserNames : ProfileView(v, u)

SpecListing == Init /\ [][NextListing]_vars

\* Creation, editing and deletion of posts and comments by authors and by others;
\* one published category, no locations, the publication date does not vary.
AuthForms ==
    {f \in PostForms : f.pub_date = 0 /\ f.category = "c1" /\ f.location = NULL}
NextAuth ==
    \/ \E u \in UserNames : SignupView(u)
    \/ AdminAddCategory("c1", TRUE)
    \/ \E v \in Viewers, f \in AuthForms : PostCreateView(v, f)
    \/ \E v \in Viewers, p \in PostIds, f \in AuthForms : PostUpdateView(v, p, f)
    \/ \E v \in Viewers, p \in PostIds : PostDeleteView(v, p)
    \/ \E v \in Viewers, p \in PostIds, t \in CommentTexts : CommentCreateView(v, p, t)
    \/ \E v \in Viewers, p \in PostIds, c \in CommentIds, t \in CommentTexts :
          CommentUpdateView(v, p, c, t)
    \/ \E v \in Viewers, p \in PostIds, c \in CommentIds : CommentDeleteView(v, p, c)

SpecAuth == Init /\ [][NextAuth]_vars

\* Deletion of rows that other rows refer to: users, categories, locations, posts
\* and comments come and go; the fields of a post other than its references do
\* not vary.
StoreForms ==
    {f \in PostForms : f.is_published /\ f.pub_date = 0 /\ f.category = "c1"}
NextStore ==
    \/ \E u \in UserNames : SignupView(u)
    \/ \E u \in UserNames : AdminDeleteUser(u)
    \/ AdminAddCategory("c1", TRUE)
    \/ AdminDeleteCategory("c1")
    \/ \E l \in LocationNames : AdminAddLocation(l, TRUE)
    \/ \E l \in LocationNames : AdminDeleteLocation(l)
    \/ \E v \in Viewers, f \in StoreForms : PostCreateView(v, f)
    \/ \E v \in Viewers, p \in PostIds : PostDeleteView(v, p)
    \/ \E v \in Viewers, p \in PostIds : CommentCreateView(v, p, "t1")
    \/ \E v \in Viewers, p \in PostIds, c \in CommentIds : CommentDeleteView(v, p, c)

SpecStore == Init /\ [][NextStore]_vars

\* The comments of a post as its detail page lists them: posts of either
\* publication state in one category that is published or not, comments written at
\* different times and published or hidden by the administrator.
CommentListForms ==
    {f \in PostForms : f.pub_date = 0 /\ f.category = "c1" /\ f.location = NULL}
NextCommentList ==
    \/ Tick
    \/ \E u \in UserNames : SignupView(u)
    \/ \E b \in BOOLEAN : AdminAddCategory("c1", b)
    \/ \E c \in CommentIds, b \in BOOLEAN : AdminSetCommentPublished(c, b)
    \/ \E v \in Viewers, f \in CommentListForms : PostCreateView(v, f)
    \/ \E v \in Viewers, p \in PostIds : CommentCreateView(v, p, "t1")
    \/ \E v \in Viewers, p \in PostIds : PostDetailView(v, p)

SpecCommentList == Init /\ [][NextCommentList]_vars

\* The comment counts of the listings: posts of either publication state in one
\* published category; comments are written, hidden by the administrator and
\* deleted, posts are deleted.
CommentCountForms ==
    {f \in PostForms : f.pub_date = 0 /\ f.category = "c1" /\ f.location = NULL}
NextCommentCount ==
    \/ \E u \in UserNames : SignupView(u)
    \/ AdminAddCategory("c1", TRUE)
    \/ \E c \in CommentIds, b \in BOOLEAN : AdminSetCommentPublished(c, b)
    \/ \E v \in Viewers, f \in CommentCountForms : PostCreateView(v, f)
    \/ \E v \in Viewers, p \in PostIds : PostDeleteView(v, p)
    \/ \E v \in Viewers, p \in PostIds : CommentCreateView(v, p, "t1")
    \/ \E v \in Viewers, p \in PostIds, c \in CommentIds : CommentDeleteView(v, p, c)
    \/ \E v \in Viewers : IndexView(v)
    \/ \E v \in Viewers : CategoryPostsView(v, "c1")
    \/ \E v \in Viewers, u \in UserNames : ProfileView(v, u)

SpecCommentCount == Init /\ [][NextCommentCount]_vars

\* Scheduled publication: posts of either publication state and date in one
\* category are written and edited while the clock advances and the administrator
\* publishes or hides the category; every read view is requested.
ClockForms == {f \in PostForms : f.category = "c1" /\ f.location = NULL}
NextClock ==
    \/ Tick
    \/ \E u \in UserNames : SignupView(u)
    \/ \E b \in BOOLEAN : AdminAddCategory("c1", b)
    \/ \E b \in BOOLEAN : AdminSetCategoryPublished("c1", b)
    \/ \E v \in Viewers, f \in ClockForms : PostCreateView(v, f)
    \/ \E v \in Viewers, p \in PostIds, f \in ClockForms : PostUpdateView(v, p, f)
    \/ \E v \in Viewers : IndexView(v)
    \/ \E v \in Viewers : CategoryPostsView(v, "c1")
    \/ \E v \in Viewers, u \in UserNames : ProfileView(v, u)
    \/ \E v \in Viewers, p \in PostIds : PostDetailView(v, p)

SpecClock == Init /\ [][NextClock]_vars

\* ------------------------------------------------------------------ properties
Range(seq) == {seq[i] : i \in 1..Len(seq)}
NoDuplicates(seq) == Cardinality(Range(seq)) = Len(seq)
IsPubDateDescending(seq) ==
    \A i, j \in 1..Len(seq) :
        i < j => posts[seq[i]].pub_date >= posts[seq[j]].pub_date

\* The public visibility predicate as spec.md states it: a null category passes.
PublicAsStated(p) ==
    /\ posts[p].is_published
    /\ posts[p].pub_date <= now
    /\ \/ posts[p].category = NULL
       \/ /\ posts[p].category \in DOMAIN categories
          /\ categories[posts[p].category].is_published

\* The public visibility predicate with the category required: a null category fails.
PublicCategoryRequired(p) ==
    /\ posts[p].is_published
    /\ posts[p].pub_date <= now
    /\ posts[p].category # NULL
    /\ posts[p].category \in DOMAIN categories
    /\ categories[posts[p].category].is_published

\* The response is to a 'view post' request for an existing post by somebody who
\* is not its author (anonymous, or another user).
ViewedByNonAuthor ==
    /\ resp.view = "PostDetailView"
    /\ resp.arg \in DOMAIN posts
    /\ resp.viewer # posts[resp.arg].author

\* C1 as stated: a non-author's 'view post' request succeeds iff the post is
\* published, its pub_date has passed and its category is null or published; in
\* every other case the outcome is NotFound.
C1_AsStated ==
    ViewedByNonAuthor =>
        /\ resp.status \in {"OK", "NotFound"}
        /\ resp.status = "OK" <=> PublicAsStated(resp.arg)

\* C1 amended: a non-author's 'view post' request succeeds iff the post is
\* published, its pub_date has passed and its category is not null and is
\* published; in every other case (a null category included) the outcome is
\* NotFound, never Forbidden.  The location of the post does not enter.
C1_NonAuthorView ==
    ViewedByNonAuthor =>
        /\ resp.status \in {"OK", "NotFound"}
        /\ resp.status = "OK" <=> PublicCategoryRequired(resp.arg)

\* A non-author has been shown a post whose location is unpublished.
C1_Witness ==
    /\ ViewedByNonAuthor
    /\ resp.status = "OK"
    /\ posts[resp.arg].location \in DOMAIN locations
    /\ ~locations[posts[resp.arg].location].is_published

\* C2: the 'view post' request of the author of an existing post succeeds, whatever
\* the post's is_published, pub_date and category.
C2_AuthorView ==
    (/\ resp.view = "PostDetailView"
     /\ resp.arg \in DOMAIN posts
     /\ resp.viewer = posts[resp.arg].author)
    => resp.status = "OK"

\* The author has been shown an own post that is unpublished, dated in the future
\* and without a category.
C2_Witness ==
    /\ resp.view = "PostDetailView"
    /\ resp.arg \in DOMAIN posts
    /\ resp.viewer = posts[resp.arg].author
    /\ resp.status = "OK"
    /\ ~posts[resp.arg].is_published
    /\ posts[resp.arg].pub_date > now
    /\ posts[resp.arg].category = NULL

\* ---- authorization
PostMutationViews == {"PostUpdateView", "PostDeleteView"}
CommentMutationViews == {"CommentUpdateView", "CommentDeleteView"}
PostTouched(p) == p \notin DOMAIN posts' \/ posts'[p] # posts[p]
CommentTouched(c) == c \notin DOMAIN comments' \/ comments'[c] # comments[c]

\* A step that is an edit or delete request by somebody who is not the stored
\* author of the existing post or comment it names.
RequestByNonAuthor ==
    \/ /\ resp'.view \in PostMutationViews
       /\ resp'.arg \in DOMAIN posts
       /\ resp'.viewer # posts[resp'.arg].author
    \/ /\ resp'.view \in CommentMutationViews
       /\ resp'.arg[2] \in DOMAIN comments
       /\ resp'.viewer # comments[resp'.arg[2]].author

C3_Step ==
    /\ \A p \in DOMAIN posts :
          PostTouched(p) =>
              /\ resp'.view \in PostMutationViews
              /\ resp'.arg = p
              /\ is_authenticated(resp'.viewer)
              /\ resp'.viewer = posts[p].author
    /\ \A c \in DOMAIN comments :
          CommentTouched(c) =>
              \/ /\ resp'.view \in CommentMutationViews
                 /\ resp'.arg[2] = c
                 /\ is_authenticated(resp'.viewer)
                 /\ resp'.viewer = comments[c].author
              \/ /\ resp'.view = "PostDeleteView"
                 /\ resp'.arg = comments[c].post
                 /\ resp'.viewer = posts[comments[c].post].author
    /\ RequestByNonAuthor =>
          /\ UNCHANGED <<store, now>>
          /\ resp'.status \in {"Redirect", "Forbidden"}

\* C3: an edit or delete of a Post or Comment takes effect only when the requester
\* is authenticated and is the stored author of the entity (a comment also goes
\* with its post when the post's author deletes the post); the request of anybody
\* else is denied and leaves every stored entity unchanged.
C3_OnlyAuthorMutates == [][C3_Step]_vars

\* Another registered user has asked to edit an existing comment and was refused.
C3_Witness ==
    /\ resp.view = "CommentUpdateView"
    /\ resp.status = "Forbidden"
    /\ resp.viewer \in users
    /\ resp.arg[2] \in DOMAIN comments
    /\ comments[resp.arg[2]].author # resp.viewer

\* C4 as stated: a denied edit or delete request for an existing post is answered
\* by a redirect to the login page for an anonymous viewer and by a redirect to
\* the post's detail page for an authenticated viewer who is not the author, for
\* the edit and for the delete alike.
C4_DenialRedirects ==
    (/\ resp.view \in PostMutationViews
     /\ resp.arg \in DOMAIN posts
     /\ resp.viewer # posts[resp.arg].author)
    => /\ resp.status = "Redirect"
       /\ resp.url = IF is_authenticated(resp.viewer)
                     THEN post_detail_url(resp.arg) ELSE LOGIN_URL

\* ---- authorship
C9_Step ==
    /\ \A p \in DOMAIN posts' \ DOMAIN posts :
          /\ resp'.view = "PostCreateView"
          /\ is_authenticated(resp'.viewer)
          /\ resp'.viewer \in users
          /\ posts'[p].author = resp'.viewer
    /\ \A c \in DOMAIN comments' \ DOMAIN comments :
          /\ resp'.view = "CommentCreateView"
          /\ is_authenticated(resp'.viewer)
          /\ resp'.viewer \in users
          /\ comments'[c].author = resp'.viewer
    /\ \A p \in DOMAIN posts \cap DOMAIN posts' : posts'[p].author = posts[p].author
    /\ \A c \in DOMAIN comments \cap DOMAIN comments' :
          comments'[c].author = comments[c].author
    /\ (resp'.view \in {"PostCreateView", "CommentCreateView"}
        /\ ~is_authenticated(resp'.viewer))
       => /\ resp'.status = "Redirect"
          /\ resp'.url = LOGIN_URL
          /\ UNCHANGED <<store, now>>

\* C9: a Post or Comment is persisted only by the create request of an
\* authenticated viewer, who becomes its author; no later step changes the author
\* of a stored Post or Comment; the create request of an anonymous viewer is
\* redirected to the login page and persists nothing.
C9_AuthorIsCreator == [][C9_Step]_vars

\* A user has just commented on a post of somebody else and is the author of the
\* stored comment.
C9_Witness ==
    /\ resp.view = "CommentCreateView"
    /\ resp.status = "Redirect"
    /\ \E c \in DOMAIN comments :
          /\ comments[c].author = resp.viewer
          /\ comments[c].post = resp.arg
          /\ posts[resp.arg].author # resp.viewer

\* ---- referential integrity
References ==
    /\ \A c \in DOMAIN comments :
          comments[c].post \in DOMAIN posts /\ comments[c].author \in users
    /\ \A p \in DOMAIN posts :
          /\ posts[p].author \in users
          /\ posts[p].category \in DOMAIN categories \cup {NULL}
          /\ posts[p].location \in DOMAIN locations \cup {NULL}

C10_Step ==
    /\ References'
    \* a post deleted by a request: exactly its comments go with it
    /\ (resp'.view = "PostDeleteView" /\ resp'.arg \in DOMAIN posts \ DOMAIN posts')
       => /\ DOMAIN posts' = DOMAIN posts \ {resp'.arg}
          /\ DOMAIN comments' = DOMAIN comments \ CommentsOfPosts({resp'.arg})
          /\ \A c \in DOMAIN comments' : comments'[c] = comments[c]
          /\ \A p \in DOMAIN posts' : posts'[p] = posts[p]
    \* a category deleted: its posts stay, with a null category
    /\ \A s \in DOMAIN categories \ DOMAIN categories' :
          /\ DOMAIN posts' = DOMAIN posts
          /\ \A p \in DOMAIN posts :
                posts'[p] = IF posts[p].category = s
                            THEN [posts[p] EXCEPT !.category = NULL] ELSE posts[p]
          /\ comments' = comments
    \* a location deleted: its posts stay, with a null location
    /\ \A l \in DOMAIN locations \ DOMAIN locations' :
          /\ DOMAIN posts' = DOMAIN posts
          /\ \A p \in DOMAIN posts :
                posts'[p] = IF posts[p].location = l
                            THEN [posts[p] EXCEPT !.location = NULL] ELSE posts[p]
          /\ comments' = comments

\* C10: every stored Comment refers to an existing Post and an existing User
\* (and every Post to an existing User and to existing or null Category and
\* Location); deleting a Post deletes exactly the Comments that refer to it;
\* deleting a Category or Location nulls the reference of the Posts that refer to
\* it and keeps those Posts and all Comments.
C10_ReferencesKept == [][C10_Step]_vars

\* A post has been deleted by its author while a comment on another post, whose
\* category was deleted, is still stored.
C10_Witness ==
    /\ resp.view = "PostDeleteView"
    /\ resp.status = "Redirect"
    /\ \E c \in DOMAIN comments : posts[comments[c].post].category = NULL

\* ---- listings
\* The response lists exactly the posts of rows, newest pub_date first.
Lists(rows) ==
    /\ resp.status = "OK"
    /\ Range(resp.object_list) = rows
    /\ NoDuplicates(resp.object_list)
    /\ IsPubDateDescending(resp.object_list)

\* C5 as stated: the index lists exactly the posts that pass the public
\* visibility predicate of spec.md (published, pub_date <= now, category null or
\* published), newest first, whoever asks.
C5_AsStated ==
    resp.view = "IndexView" => Lists({p \in DOMAIN posts : PublicAsStated(p)})

\* C5 amended: the index lists exactly the posts that are published, have
\* pub_date <= now and have a category that is not null and is published, newest
\* pub_date first; the viewer does not enter.
C5_Index ==
    resp.view = "IndexView" => Lists({p \in DOMAIN posts : PublicCategoryRequired(p)})

\* A registered user has been shown an index of two posts of different dates.
C5_Witness ==
    /\ resp.view = "IndexView"
    /\ resp.viewer \in users
    /\ Len(resp.object_list) = 2
    /\ posts[resp.object_list[1]].pub_date > posts[resp.object_list[2]].pub_date

FuturePublished(p) == posts[p].is_published /\ posts[p].pub_date > now

\* C6 as stated: while the pub_date of a published post X of author A (in a
\* published category) is in the future, the index requested by anybody but A does
\* not contain X and the index requested by A does.
C6_AsStated ==
    resp.view = "IndexView" =>
        \A p \in DOMAIN posts :
            (/\ FuturePublished(p)
             /\ posts[p].category \in DOMAIN categories
             /\ categories[posts[p].category].is_published)
            => (p \in Range(resp.object_list) <=> resp.viewer = posts[p].author)

\* C6 amended: while the pub_date of a published post X is in the future, the
\* index does not contain X, whoever requests it, the author of X included.
C6_FutureAbsent ==
    resp.view = "IndexView" =>
        \A p \in DOMAIN posts : FuturePublished(p) => p \notin Range(resp.object_list)

\* The author of a published, future-dated post in a published category has
\* requested the index.
C6_Witness ==
    /\ resp.view = "IndexView"
    /\ \E p \in DOMAIN posts :
          /\ FuturePublished(p)
          /\ posts[p].author = resp.viewer
          /\ posts[p].category \in DOMAIN categories
          /\ categories[posts[p].category].is_published

ProfileListing(public(_)) ==
    resp.view = "ProfileView" =>
        IF resp.arg \notin users THEN resp.status = "NotFound"
        ELSE IF resp.viewer = resp.arg THEN Lists(PostsOfAuthor(resp.arg))
        ELSE Lists({p \in PostsOfAuthor(resp.arg) : public(p)})

\* C7 as stated: the profile of u is NotFound when u does not exist; u is shown
\* all of u's posts; anybody else is shown exactly u's posts that pass the public
\* visibility predicate of spec.md (category null or published); newest first.
C7_AsStated == ProfileListing(PublicAsStated)

\* C7 amended: as stated, but anybody else is shown exactly u's posts that are
\* published, have pub_date <= now and have a category that is not null and is
\* published.
C7_Profile == ProfileListing(PublicCategoryRequired)

\* Somebody else has been shown the profile of a user one of whose two posts is
\* visible and the other is not.
C7_Witness ==
    /\ resp.view = "ProfileView"
    /\ resp.viewer # resp.arg
    /\ resp.status = "OK"
    /\ Len(resp.object_list) = 1
    /\ Cardinality(PostsOfAuthor(resp.arg)) = 2

\* C8: the category listing is NotFound when no Category has the slug or the
\* Category is unpublished, whoever asks; otherwise it lists exactly the posts of
\* that Category that are published with pub_date <= now, newest first.
C8_Category ==
    resp.view = "CategoryPostsView" =>
        IF resp.arg \notin DOMAIN categories \/ ~categories[resp.arg].is_published
        THEN resp.status = "NotFound"
        ELSE Lists({p \in DOMAIN posts : /\ posts[p].category = resp.arg
                                         /\ posts[p].is_published
                                         /\ posts[p].pub_date <= now})

\* The author of a post in an unpublished category was answered NotFound for the
\* listing of that category.
C8_Witness ==
    /\ resp.view = "CategoryPostsView"
    /\ resp.status = "NotFound"
    /\ resp.arg \in DOMAIN categories
    /\ \E p \in DOMAIN posts :
          posts[p].category = resp.arg /\ posts[p].author = resp.viewer

\* ---- the comments of the detail page
IsCreatedAtAscending(seq) ==
    \A i, j \in 1..Len(seq) :
        i < j => comments[seq[i]].created_at <= comments[seq[j]].created_at

\* C11: a successful 'view post' response for post P lists exactly the Comments
\* with post = P and is_published = true, oldest created_at first, whatever the
\* publication state, pub_date and category of P and whoever the viewer is.
C11_CommentList ==
    (resp.view = "PostDetailView" /\ resp.status = "OK") =>
        /\ Range(resp.object_list) =
              {c \in DOMAIN comments : comments[c].post = resp.arg
                                       /\ comments[c].is_published}
        /\ NoDuplicates(resp.object_list)
        /\ IsCreatedAtAscending(resp.object_list)

\* The author has been shown an unpublished post of theirs with its two comments,
\* written at different times.
C11_Witness ==
    /\ resp.view = "PostDetailView"
    /\ resp.status = "OK"
    /\ ~posts[resp.arg].is_published
    /\ Len(resp.object_list) = 2
    /\ comments[resp.object_list[1]].created_at
          < comments[resp.object_list[2]].created_at

\* ---- the comment counts of the listings
ListingViews == {"IndexView", "CategoryPostsView", "ProfileView"}

\* C12: every post of an index, category or profile listing carries a
\* comment_count equal to the number of Comment rows that refer to it in the store
\* at the time of the request, published or not.
C12_CommentCount ==
    (resp.view \in ListingViews /\ resp.status = "OK") =>
        /\ DOMAIN resp.comment_count = Range(resp.object_list)
        /\ \A p \in Range(resp.object_list) :
              resp.comment_count[p] =
                  Cardinality({c \in DOMAIN comments : comments[c].post = p})

\* After two comments were written and one of them deleted, a listing shows a
\* post with a count of one for its one, unpublished, comment.
C12_Witness ==
    /\ resp.view \in ListingViews
    /\ resp.status = "OK"
    /\ next_comment_id = 3
    /\ \E p \in Range(resp.object_list) :
          /\ resp.comment_count[p] = 1
          /\ \E c \in DOMAIN comments :
                comments[c].post = p /\ ~comments[c].is_published

\* ---- scheduled publication
\* Post p is published and its category is published: only its pub_date decides
\* whether others see it.
Scheduled(p) ==
    /\ posts[p].is_published
    /\ posts[p].category \in DOMAIN categories
    /\ categories[posts[p].category].is_published

\* The response is to a request that has post p in its scope: the index, the
\* listing of p's category, the profile of p's author or the detail view of p.
InScope(p) ==
    \/ resp.view = "IndexView"
    \/ resp.view = "CategoryPostsView" /\ resp.arg = posts[p].category
    \/ resp.view = "ProfileView" /\ resp.arg = posts[p].author
    \/ resp.view = "PostDetailView" /\ resp.arg = p

\* The response shows post p: p is in the listing, or p's detail page was served.
Shows(p) ==
    /\ resp.status = "OK"
    /\ \/ resp.view \in ListingViews /\ p \in Range(resp.object_list)
       \/ resp.view = "PostDetailView" /\ resp.arg = p

\* The querysets of the views show post p to every viewer.
VisibleToAll(p) ==
    /\ p \in PublishedPostsMixin_get_queryset
    /\ p \in CategoryPostsView_get_queryset(posts[p].category).rows
    /\ \A v \in Viewers :
          /\ p \in ProfileView_get_queryset(v, posts[p].author).rows
          /\ p \in PostDetailView_get_queryset(v, p).rows

\* No stored field that decides the visibility of post p is changed by the step.
FieldsKept(p) ==
    /\ p \in DOMAIN posts'
    /\ posts'[p] = posts[p]
    /\ posts[p].category \in DOMAIN categories'
    /\ categories'[posts[p].category] = categories[posts[p].category]

\* Every response about a scheduled post follows the clock: a non-author is not
\* shown the post while now < pub_date, and everybody is shown it from pub_date on.
FollowsClock ==
    \A p \in DOMAIN posts :
        (Scheduled(p) /\ InScope(p)) =>
            /\ (posts[p].pub_date > now /\ resp.viewer # posts[p].author) => ~Shows(p)
            /\ posts[p].pub_date <= now => Shows(p)

C13_Step ==
    /\ FollowsClock'
    /\ \A p \in DOMAIN posts :
          /\ (Scheduled(p) /\ FieldsKept(p) /\ now < posts[p].pub_date
                           /\ posts[p].pub_date <= now')
                => (~VisibleToAll(p) /\ VisibleToAll(p)')
          /\ (VisibleToAll(p) /\ FieldsKept(p)) => VisibleToAll(p)'

\* C13: a published post in a published category with pub_date in the future is
\* absent from every listing and from the detail view for every non-author while
\* now < pub_date; with no operation on the post it is present for every request
\* once the clock has reached pub_date; and once visible it stays visible over
\* every step that changes none of its stored fields or its category's.
C13_ScheduledPublication == [][C13_Step]_vars

\* The clock has reached the pub_date of a published post that was dated after
\* the start of the clock, and a non-author's request has been shown the post.
C13_Witness ==
    /\ now > 0
    /\ \E p \in DOMAIN posts :
          /\ Scheduled(p)
          /\ posts[p].pub_date = now
          /\ InScope(p)
          /\ resp.viewer # posts[p].author
          /\ Shows(p)

\* ---- the (post_id, comment_id) pair of a comment request
C14_Step ==
    \A c \in DOMAIN comments :
        (CommentTouched(c) /\ resp'.view \in CommentMutationViews) =>
            /\ resp'.arg[2] = c
            /\ resp'.arg[1] \in DOMAIN posts
            /\ comments[c].post = resp'.arg[1]

\* C14: an edit or delete of a comment requested under (post_id, comment_id)
\* takes effect only when the comment comment_id belongs to the post post_id; a
\* request whose post_id names another post or no existing post changes no comment.
C14_PairRequired == [][C14_Step]_vars
====
